---- MODULE Spec2Model ----
(***************************************************************************)
(* Model of src/utils/portCheck.ts: isPortAvailable, findAvailablePort and *)
(* getAvailablePort, together with the part of Node's net.Server that the  *)
(* probe drives (listen, the 'listening' and 'error' events, close).       *)
(*                                                                         *)
(* One action is one run-to-completion segment of the JavaScript event     *)
(* loop: the synchronous start of a call up to its first await, the OS     *)
(* bind attempt, an event handler, or the continuation of an await.        *)
(***************************************************************************)
EXTENDS Integers, Sequences, FiniteSets, TLC

VARIABLES
    free,          \* environment: ports on which a bind to 127.0.0.1 succeeds
    holders,       \* ports currently held by a socket created by a probe
    op,            \* the public operation being executed ("none" before any)
    preferredPort, \* getAvailablePort: parameter
    autoSwitch,    \* getAvailablePort: parameter
    getpc,         \* getAvailablePort: where the async function is suspended
    startPort,     \* findAvailablePort: parameter
    maxAttempts,   \* findAvailablePort: parameter
    i,             \* findAvailablePort: loop variable
    findpc,        \* findAvailablePort: where the async function is suspended
    findValue,     \* findAvailablePort: value its promise was fulfilled with
    server,        \* the net.Server of the current probe
    event,         \* event emitted by the server and not yet handled
    promise,       \* the promise isPortAvailable returned
    resolveCalls,  \* times the current probe's resolve() has been invoked
    probed,        \* ports passed to isPortAvailable in the current call, in order
    inflight,      \* isPortAvailable promises created and not yet settled
    outcome,       \* how the public operation ended, and with what
    lastProbe      \* the previous probe that settled and was consumed

vars == <<free, holders, op, preferredPort, autoSwitch, getpc, startPort,
          maxAttempts, i, findpc, findValue, server, event, promise,
          resolveCalls, probed, inflight, outcome, lastProbe>>

getVars == <<preferredPort, autoSwitch, getpc>>
findVars == <<startPort, maxAttempts, i, findpc, findValue>>
probeVars == <<server, event, promise, resolveCalls, probed, inflight>>

----------------------------------------------------------------------------
(* Program constants *)

\* default value of findAvailablePort's maxAttempts parameter
DefaultMaxAttempts == 50

\* the window width the exhaustion message of getAvailablePort is built with
MessageWindow == 50

\* server.listen(port, host) accepts 0..65535 and throws ERR_SOCKET_BAD_PORT
\* (a RangeError, synchronously) for any other number
MaxPort == 65535

\* the error codes an 'error' event of a failed listen can carry; the handler
\* names two of them and has an else branch for all the others
ErrCodes == {"EADDRINUSE", "EACCES", "EOTHER"}

----------------------------------------------------------------------------
(* Bounds of the explored inputs *)

\* at most this many ports of the environment are free
MaxFree == 2

\* findAvailablePort is called with maxAttempts in -1..MaxSmallAttempts and
\* with the default
MaxSmallAttempts == 2

\* ports of the environment that may be free: around the first port of the
\* explored calls, and the last two valid ports
FreeCandidates == {MaxPort - 51, MaxPort - 50, MaxPort - 49, MaxPort - 48,
                   MaxPort - 1, MaxPort}

\* first ports the public operations are called with: windows that end
\* below, at and beyond the last valid port, and values outside 0..65535
PortInputs == {MaxPort - 51, MaxPort - 50, MaxPort - 49, MaxPort,
               MaxPort + 1, -1}

AttemptInputs == (-1 .. MaxSmallAttempts) \cup {DefaultMaxAttempts}

----------------------------------------------------------------------------
(* Values *)

\* bind: what the bind attempt of this server came to ("pending", "ok" or the
\* error code), kept after the server is closed
NoServer == [port |-> 0, state |-> "none", listeners |-> {}, bind |-> "none"]
NoEvent == [type |-> "none", code |-> "none"]
NoPromise == [state |-> "none", value |-> FALSE]
NoOutcome == [status |-> "none"]
NoProbe == [port |-> 0, state |-> "none", value |-> FALSE]

----------------------------------------------------------------------------
(* Node's net.Server, as far as the probe uses it *)

\* server.listen validates the port before anything else
ValidPort(port) == port >= 0 /\ port <= MaxPort

\* the OS bind-and-listen on 127.0.0.1:port succeeds when the environment
\* leaves the port free and no socket of a probe still holds it
BindSucceeds(port) == port \in free /\ port \notin holders

\* variant: the 'listening' handler forgets server.close()
CloseServerLeak(held, port) == held

\* server.close() releases the listening handle
CloseServer(held, port) == held \ {port}

----------------------------------------------------------------------------
(* isPortAvailable *)

\* variant: the else branch of the 'error' handler resolves with true
OnErrorValueByCode(code) ==
    IF code = "EADDRINUSE" \/ code = "EACCES" THEN FALSE ELSE TRUE

\* the value the 'error' handler resolves with, for each error code
OnErrorValue(code) ==
    IF code = "EADDRINUSE" \/ code = "EACCES" THEN FALSE ELSE FALSE

\* the value the 'listening' handler resolves with
OnListeningValue == TRUE

\* resolve(value): settles the promise the first time it is invoked
Resolve(value) ==
    /\ promise' = IF promise.state = "pending"
                    THEN [state |-> "fulfilled", value |-> value]
                    ELSE promise
    /\ inflight' = IF promise.state = "pending" THEN inflight - 1 ELSE inflight
    /\ resolveCalls' = resolveCalls + 1

\* the synchronous body of isPortAvailable(port): create the server, register
\* both handlers with once(), call listen. A throw of listen inside the
\* promise executor rejects the promise. sofar: the ports probed before.
StartProbe(port, sofar) ==
    /\ probed' = Append(sofar, port)
    /\ event' = NoEvent
    /\ resolveCalls' = 0
    /\ IF ValidPort(port)
         THEN /\ server' = [port |-> port, state |-> "binding",
                            listeners |-> {"error", "listening"},
                            bind |-> "pending"]
              /\ promise' = [state |-> "pending", value |-> FALSE]
              /\ inflight' = inflight + 1
         ELSE /\ server' = [port |-> port, state |-> "created",
                            listeners |-> {"error", "listening"},
                            bind |-> "none"]
              /\ promise' = [state |-> "rejected", value |-> FALSE]
              /\ inflight' = inflight

\* no probe is started: nothing of an earlier probe is left to look at
ClearProbe(sofar) ==
    /\ probed' = sofar
    /\ event' = NoEvent
    /\ resolveCalls' = 0
    /\ server' = NoServer
    /\ promise' = NoPromise
    /\ inflight' = inflight

Settled == promise.state \in {"fulfilled", "rejected"}

\* an await continuation takes the settled promise
Consumed == [port |-> server.port, state |-> promise.state, value |-> promise.value]

\* the bind attempt succeeds: the socket holds the port, 'listening' is emitted
BindSuccess ==
    /\ server.state = "binding"
    /\ BindSucceeds(server.port)
    /\ server' = [server EXCEPT !.state = "listening", !.bind = "ok"]
    /\ holders' = holders \cup {server.port}
    /\ event' = [type |-> "listening", code |-> "none"]
    /\ UNCHANGED <<free, op, getVars, findVars, promise, resolveCalls, probed,
                   inflight, outcome, lastProbe>>

\* the bind attempt fails: the handle is dropped, 'error' is emitted with a code
BindError ==
    /\ server.state = "binding"
    /\ ~BindSucceeds(server.port)
    /\ \E code \in ErrCodes :
         /\ event' = [type |-> "error", code |-> code]
         /\ server' = [server EXCEPT !.state = "closed", !.bind = code]
    /\ UNCHANGED <<free, holders, op, getVars, findVars, promise, resolveCalls,
                   probed, inflight, outcome, lastProbe>>

\* server.once("listening", ...): close the server, resolve(true)
OnListening ==
    /\ event.type = "listening"
    /\ "listening" \in server.listeners
    /\ server' = [server EXCEPT !.state = "closed",
                                !.listeners = @ \ {"listening"}]
    /\ holders' = CloseServer(holders, server.port)
    /\ event' = NoEvent
    /\ Resolve(OnListeningValue)
    /\ UNCHANGED <<free, op, getVars, findVars, probed, outcome, lastProbe>>

\* server.once("error", ...): resolve(false) whatever the code
OnError ==
    /\ event.type = "error"
    /\ "error" \in server.listeners
    /\ server' = [server EXCEPT !.listeners = @ \ {"error"}]
    /\ event' = NoEvent
    /\ Resolve(OnErrorValue(event.code))
    /\ UNCHANGED <<free, holders, op, getVars, findVars, probed, outcome,
                   lastProbe>>

----------------------------------------------------------------------------
(* The public operations *)

\* a public operation can be called when none is running
Idle == op = "none" \/ outcome.status # "none"

Returned(value) == [status |-> "returned", value |-> value]
Rejected == [status |-> "rejected", value |-> "ERR_SOCKET_BAD_PORT"]

\* the caller of isPortAvailable(port)
CallIsPortAvailable(port) ==
    /\ Idle
    /\ op' = "isPortAvailable"
    /\ StartProbe(port, <<>>)
    /\ outcome' = NoOutcome
    /\ preferredPort' = 0 /\ autoSwitch' = TRUE /\ getpc' = "none"
    /\ startPort' = 0 /\ maxAttempts' = 0 /\ i' = 0
    /\ findpc' = "none" /\ findValue' = 0
    /\ UNCHANGED <<free, holders, lastProbe>>

\* the caller's await of isPortAvailable(port) continues
IsPortAvailableDone ==
    /\ op = "isPortAvailable"
    /\ outcome.status = "none"
    /\ Settled
    /\ outcome' = IF promise.state = "fulfilled"
                    THEN Returned(promise.value)
                    ELSE Rejected
    /\ lastProbe' = Consumed
    /\ promise' = NoPromise
    /\ UNCHANGED <<free, holders, op, getVars, findVars, server, event,
                   resolveCalls, probed, inflight>>

----------------------------------------------------------------------------
(* findAvailablePort *)

\* variant: the scan is off by one and starts a port too low
ScanPortOffByOne(start, k) == start + k - 1

\* const port = startPort + i
ScanPort(start, k) == start + k

\* the loop condition i < maxAttempts
LoopContinues(k, max) == k < max

\* the promise of findAvailablePort settles; its caller is either the user
\* or getAvailablePort
FindSettle(pc, value) ==
    /\ findpc' = pc
    /\ findValue' = value
    /\ outcome' = IF op = "findAvailablePort"
                    THEN (IF pc = "returned" THEN Returned(value) ELSE Rejected)
                    ELSE outcome

\* findAvailablePort(start, max) up to its first await: the first loop test
\* and, when it passes, the first probe
FindBegin(start, max, sofar) ==
    /\ startPort' = start
    /\ maxAttempts' = max
    /\ i' = 0
    /\ IF LoopContinues(0, max)
         THEN /\ StartProbe(ScanPort(start, 0), sofar)
              /\ findpc' = "awaitProbe"
              /\ findValue' = 0
         ELSE /\ ClearProbe(sofar)
              /\ findpc' = "returned"
              /\ findValue' = -1

CallFindAvailablePort(start, max) ==
    /\ Idle
    /\ op' = "findAvailablePort"
    /\ FindBegin(start, max, <<>>)
    /\ outcome' = IF LoopContinues(0, max) THEN NoOutcome ELSE Returned(-1)
    /\ preferredPort' = 0 /\ autoSwitch' = TRUE /\ getpc' = "none"
    /\ UNCHANGED <<free, holders, lastProbe>>

\* the await of isPortAvailable(port) inside the loop continues: return the
\* port, or go round the loop and probe the next port, or return -1
FindResume ==
    /\ findpc = "awaitProbe"
    /\ Settled
    /\ lastProbe' = Consumed
    /\ IF promise.state = "rejected"
         THEN /\ FindSettle("thrown", 0)
              /\ promise' = NoPromise
              /\ UNCHANGED <<i, server, event, resolveCalls, probed, inflight>>
         ELSE IF promise.value
         THEN /\ FindSettle("returned", ScanPort(startPort, i))
              /\ promise' = NoPromise
              /\ UNCHANGED <<i, server, event, resolveCalls, probed, inflight>>
         ELSE IF LoopContinues(i + 1, maxAttempts)
         THEN /\ i' = i + 1
              /\ StartProbe(ScanPort(startPort, i + 1), probed)
              /\ UNCHANGED <<findpc, findValue, outcome>>
         ELSE /\ i' = i + 1
              /\ FindSettle("returned", -1)
              /\ promise' = NoPromise
              /\ UNCHANGED <<server, event, resolveCalls, probed, inflight>>
    /\ UNCHANGED <<free, holders, op, getVars, startPort, maxAttempts>>

----------------------------------------------------------------------------
(* getAvailablePort *)

\* variant: the direct result claims a switch
ResultDirectSwitched(preferred) == [port |-> preferred, switched |-> TRUE]

\* return { port: preferredPort, switched: false }
ResultDirect(preferred) == [port |-> preferred, switched |-> FALSE]

\* the record returned when the preferred port is busy and autoSwitch is off
ResultNoSwitch(preferred) ==
    [port |-> -1, switched |-> FALSE,
     message |-> [text |-> "Port $1 is already in use. Please specify a different port in config.json or enable auto port switching.",
                  args |-> <<preferred>>]]

\* variant: the exhausted scan claims a switch
ResultExhaustedSwitched(preferred) ==
    [port |-> -1, switched |-> TRUE,
     message |-> [text |-> "Port $1 is in use and no available ports found in range $2-$3.",
                  args |-> <<preferred, preferred + 1, preferred + MessageWindow>>]]

\* the record returned when the scan found no port
ResultExhausted(preferred) ==
    [port |-> -1, switched |-> FALSE,
     message |-> [text |-> "Port $1 is in use and no available ports found in range $2-$3.",
                  args |-> <<preferred, preferred + 1, preferred + MessageWindow>>]]

\* the record returned when the scan found a port
ResultSwitched(preferred, availablePort) ==
    [port |-> availablePort, switched |-> TRUE,
     message |-> [text |-> "Port $1 is in use, automatically switched to port $2.",
                  args |-> <<preferred, availablePort>>]]

\* variant: the autoSwitch flag is ignored and the scan always runs
GivesUpNever(auto) == FALSE

\* if (!autoSwitch): give up without scanning
GivesUp(auto) == ~auto

\* getAvailablePort(preferred, auto) up to its first await
CallGetAvailablePort(preferred, auto) ==
    /\ Idle
    /\ op' = "getAvailablePort"
    /\ preferredPort' = preferred
    /\ autoSwitch' = auto
    /\ getpc' = "awaitIsAvailable"
    /\ StartProbe(preferred, <<>>)
    /\ outcome' = NoOutcome
    /\ startPort' = 0 /\ maxAttempts' = 0 /\ i' = 0
    /\ findpc' = "none" /\ findValue' = 0
    /\ UNCHANGED <<free, holders, lastProbe>>

\* the await of isPortAvailable(preferredPort) continues: return at once, or
\* call findAvailablePort(preferredPort + 1) and await it
GetResumePreferred ==
    /\ getpc = "awaitIsAvailable"
    /\ Settled
    /\ lastProbe' = Consumed
    /\ IF promise.state = "rejected"
         THEN /\ getpc' = "thrown"
              /\ outcome' = Rejected
              /\ promise' = NoPromise
              /\ UNCHANGED <<findVars, server, event, resolveCalls, probed, inflight>>
         ELSE IF promise.value
         THEN /\ getpc' = "returned"
              /\ outcome' = Returned(ResultDirect(preferredPort))
              /\ promise' = NoPromise
              /\ UNCHANGED <<findVars, server, event, resolveCalls, probed, inflight>>
         ELSE IF GivesUp(autoSwitch)
         THEN /\ getpc' = "returned"
              /\ outcome' = Returned(ResultNoSwitch(preferredPort))
              /\ promise' = NoPromise
              /\ UNCHANGED <<findVars, server, event, resolveCalls, probed, inflight>>
         ELSE /\ getpc' = "awaitFind"
              /\ FindBegin(preferredPort + 1, DefaultMaxAttempts, probed)
              /\ UNCHANGED outcome
    /\ UNCHANGED <<free, holders, op, preferredPort, autoSwitch>>

\* the await of findAvailablePort(preferredPort + 1) continues
GetResumeFind ==
    /\ getpc = "awaitFind"
    /\ findpc \in {"returned", "thrown"}
    /\ IF findpc = "thrown"
         THEN /\ getpc' = "thrown"
              /\ outcome' = Rejected
         ELSE /\ getpc' = "returned"
              /\ outcome' = IF findValue = -1
                              THEN Returned(ResultExhausted(preferredPort))
                              ELSE Returned(ResultSwitched(preferredPort, findValue))
    /\ UNCHANGED <<free, holders, op, preferredPort, autoSwitch, findVars,
                   probeVars, lastProbe>>

----------------------------------------------------------------------------
(* The specification *)

Init ==
    /\ free \in {S \in SUBSET FreeCandidates : Cardinality(S) <= MaxFree}
    /\ holders = {}
    /\ op = "none"
    /\ preferredPort = 0 /\ autoSwitch = TRUE /\ getpc = "none"
    /\ startPort = 0 /\ maxAttempts = 0 /\ i = 0
    /\ findpc = "none" /\ findValue = 0
    /\ server = NoServer
    /\ event = NoEvent
    /\ promise = NoPromise
    /\ resolveCalls = 0
    /\ probed = <<>>
    /\ inflight = 0
    /\ outcome = NoOutcome
    /\ lastProbe = NoProbe

Next ==
    \/ \E port \in PortInputs : CallIsPortAvailable(port)
    \/ \E start \in PortInputs, max \in AttemptInputs :
         CallFindAvailablePort(start, max)
    \/ \E preferred \in PortInputs, auto \in BOOLEAN :
         CallGetAvailablePort(preferred, auto)
    \/ BindSuccess
    \/ BindError
    \/ OnListening
    \/ OnError
    \/ IsPortAvailableDone
    \/ FindResume
    \/ GetResumePreferred
    \/ GetResumeFind

Spec == Init /\ [][Next]_vars

----------------------------------------------------------------------------
(* Vocabulary of the properties *)

Min(S) == CHOOSE x \in S : \A y \in S : x <= y

Range(seq) == {seq[k] : k \in DOMAIN seq}

\* a port something else is bound to: a valid port on which the bind fails
Busy(port) == ValidPort(port) /\ port \notin free

GetEnded == op = "getAvailablePort" /\ outcome.status # "none"
FindEnded == op = "findAvailablePort" /\ outcome.status # "none"

\* a step of the running call, as opposed to the start of a new one
CallStep ==
    \/ BindSuccess
    \/ BindError
    \/ OnListening
    \/ OnError
    \/ IsPortAvailableDone
    \/ FindResume
    \/ GetResumePreferred
    \/ GetResumeFind

----------------------------------------------------------------------------
(* C1 *)

\* C1: getAvailablePort(preferred, true) with the preferred port busy: when a
\* port of preferred+1 .. preferred+50 is free the result is the lowest such
\* port f, switched, with a message naming preferred and f; when none is free
\* the result is port -1, not switched, with a message giving the range
\* preferred+1 to preferred+50, and the scan probed exactly those ports.
C1_ScanResolution ==
    (GetEnded /\ Busy(preferredPort) /\ autoSwitch) =>
        LET window == (preferredPort + 1) .. (preferredPort + 50)
            found == window \cap free
        IN  /\ outcome.status = "returned"
            /\ IF found # {}
                 THEN /\ outcome.value.port = Min(found)
                      /\ outcome.value.switched = TRUE
                      /\ outcome.value.message.args = <<preferredPort, Min(found)>>
                 ELSE /\ outcome.value.port = -1
                      /\ outcome.value.switched = FALSE
                      /\ outcome.value.message.args =
                            <<preferredPort, preferredPort + 1, preferredPort + 50>>
                      /\ Range(SubSeq(probed, 2, Len(probed))) = window

----------------------------------------------------------------------------
(* C2 *)

\* C2: getAvailablePort with the preferred port free probes the preferred
\* port and nothing else, and returns {port: preferred, switched: false}
\* without a message, whatever autoSwitch is.
C2_FreePreferred ==
    (op = "getAvailablePort" /\ preferredPort \in free) =>
        /\ probed = <<preferredPort>>
        /\ outcome.status # "none" =>
              /\ outcome.status = "returned"
              /\ outcome.value.port = preferredPort
              /\ outcome.value.switched = FALSE
              /\ "message" \notin DOMAIN outcome.value

C2_Witness ==
    /\ GetEnded
    /\ preferredPort \in free
    /\ preferredPort + 1 \in free
    /\ autoSwitch
    /\ outcome.status = "returned"

----------------------------------------------------------------------------
(* C3 *)

\* C3: getAvailablePort(preferred, false) with the preferred port busy probes
\* the preferred port and nothing else, and returns port -1, not switched,
\* with a message naming the preferred port.
C3_BusyNoSwitch ==
    (op = "getAvailablePort" /\ Busy(preferredPort) /\ ~autoSwitch) =>
        /\ probed = <<preferredPort>>
        /\ outcome.status # "none" =>
              /\ outcome.status = "returned"
              /\ outcome.value.port = -1
              /\ outcome.value.switched = FALSE
              /\ "message" \in DOMAIN outcome.value
              /\ preferredPort \in Range(outcome.value.message.args)

C3_Witness ==
    /\ GetEnded
    /\ Busy(preferredPort)
    /\ ~autoSwitch
    /\ preferredPort + 1 \in free
    /\ outcome.status = "returned"

----------------------------------------------------------------------------
(* C4 *)

\* C4: findAvailablePort(start, maxAttempts) returns the lowest free port of
\* start .. start+maxAttempts-1 when there is one and -1 when there is none.
C4_ScanResult ==
    FindEnded =>
        LET found == (startPort .. (startPort + maxAttempts - 1)) \cap free
        IN  /\ outcome.status = "returned"
            /\ outcome.value = IF found # {} THEN Min(found) ELSE -1

----------------------------------------------------------------------------
(* C5 *)

\* C5: the promise of isPortAvailable(port) is fulfilled with true exactly
\* when the bind attempt succeeded, and with false whatever the error code
\* of a failed attempt: a port nothing is bound to gives true, a port that is
\* held gives false.
C5_ProbeValue ==
    /\ promise.state = "fulfilled" =>
          /\ promise.value = (server.bind = "ok")
          /\ server.bind \in ErrCodes => promise.value = FALSE
          /\ promise.value = (server.port \in free)
    /\ (op = "isPortAvailable" /\ outcome.status = "returned") =>
          outcome.value = (probed[1] \in free)

C5_Witness ==
    /\ op = "isPortAvailable"
    /\ promise.state = "fulfilled"
    /\ server.bind = "EOTHER"
    /\ promise.value = FALSE

----------------------------------------------------------------------------
(* C6 *)

----------------------------------------------------------------------------
(* C7 *)

\* C7 as stated: in every result of getAvailablePort, switched is true
\* exactly when the returned port differs from the preferred port.
C7_SwitchedIffDiffers ==
    (GetEnded /\ outcome.status = "returned") =>
        (outcome.value.switched = (outcome.value.port # preferredPort))

\* C7 as amended: in every result of getAvailablePort, switched is true
\* exactly when the returned port is a port (not the failure value -1) and
\* differs from the preferred port.
C7_SwitchedIffOtherPort ==
    (GetEnded /\ outcome.status = "returned") =>
        (outcome.value.switched =
            (outcome.value.port # -1 /\ outcome.value.port # preferredPort))

C7_Witness ==
    /\ GetEnded
    /\ outcome.status = "returned"
    /\ outcome.value.port = -1
    /\ outcome.value.switched = FALSE
    /\ autoSwitch
    /\ Len(probed) = 51

----------------------------------------------------------------------------
(* C8 *)

\* C8: no public operation raises: whatever integer the port is, the probe
\* is fulfilled with false when the port cannot be bound, and every call
\* ends with a returned value, never rejected.
C8_NeverRaises ==
    /\ promise.state # "rejected"
    /\ outcome.status # "rejected"
    /\ (op = "isPortAvailable" /\ outcome.status # "none"
          /\ ~ValidPort(probed[1])) => outcome.value = FALSE

----------------------------------------------------------------------------
(* C9 *)

\* C9: within one call the probed ports are strictly ascending (so none is
\* probed twice), at most one probe is in flight, and every probe but the
\* last one issued was fulfilled with false: nothing is probed after a
\* success.
C9_SequentialAscending ==
    /\ \A k \in 1 .. (Len(probed) - 1) : probed[k] < probed[k + 1]
    /\ inflight \in {0, 1}
    /\ inflight = (IF promise.state = "pending" THEN 1 ELSE 0)
    /\ \A k \in 1 .. (Len(probed) - 1) : probed[k] \notin free
    /\ (Len(probed) >= 2 /\ promise.state # "none") =>
          /\ lastProbe.port = probed[Len(probed) - 1]
          /\ lastProbe.state = "fulfilled"
          /\ lastProbe.value = FALSE

C9_Witness ==
    /\ op = "getAvailablePort"
    /\ Len(probed) = 51
    /\ promise.state = "fulfilled"
    /\ promise.value = TRUE
    /\ outcome.status = "none"

----------------------------------------------------------------------------
(* C10 *)

\* C10: a call of getAvailablePort or findAvailablePort that cannot take a
\* step any more has returned (so, when every bind attempt resolves, the call
\* returns); getAvailablePort issues at most 51 probes, findAvailablePort at
\* most maxAttempts, and none, returning -1, when maxAttempts <= 0; while a
\* bind attempt is unresolved the call neither ends nor issues a probe.
C10_ReturnsWithinBudget ==
    /\ op = "getAvailablePort" =>
          /\ outcome.status = "returned" \/ ENABLED CallStep
          /\ Len(probed) <= 51
    /\ op = "findAvailablePort" =>
          /\ outcome.status = "returned" \/ ENABLED CallStep
          /\ Len(probed) <= (IF maxAttempts > 0 THEN maxAttempts ELSE 0)
          /\ maxAttempts <= 0 => (outcome.status = "returned" /\ outcome.value = -1)
    /\ server.state = "binding" => (outcome.status = "none" /\ ~Settled)

====
